---- MODULE Spec2Model ----
(***************************************************************************)
(* ICS-20 fungible token transfer: the denomination trace model            *)
(* (applications/transfer/denom.rs) and the receive handler                *)
(* (relay_application_logic/on_recv_packet.rs).                            *)
(*                                                                         *)
(* Strings are sequences of one-character strings, so that split, trim,    *)
(* join and the parsers are computed the way the code computes them.       *)
(* A TracePath is the Vec<TracePrefix> of the code: the LAST element is    *)
(* the current (leftmost in text) hop.                                     *)
(***************************************************************************)
EXTENDS Integers, Sequences, FiniteSets, TLC

VARIABLES
    \* ---- denomination workbench (SpecDenom) ----
    denom_str,        \* the string handed to PrefixedDenom::from_str
    parsed,           \* its result, NotParsed before the call
    denom,            \* the PrefixedDenom value being operated on
    ops,              \* the last operations applied to denom (newest last)
    \* ---- receive handler and host ledger (Spec) ----
    receive_enabled,  \* Ics20Reader::is_receive_enabled of the context
    blocked_accounts, \* accounts for which BankReader::is_blocked_account holds
    channels,         \* (port, channel) pairs the host knows an escrow account for
    balances,         \* <<account, denom>> -> amount held (absent = 0)
    supply,           \* denom -> amount minted (absent = 0)
    denom_traces,     \* the registry: hash -> denom (BTreeMap<HashedDenom, DenomTrace>)
    events,           \* events emitted to the ModuleOutputBuilder of the last call
    call,             \* the last process_recv_packet call: inputs and result
    pending,          \* the Box<WriteFn> returned and not yet consumed, or NoAction
    applied,          \* outcome of applying the last returned action
    phase,            \* "idle" | "returned" | "applied" | "discarded"
    \* ---- amount arithmetic (SpecAmount) ----
    arith,            \* two Amounts, the checked operation applied, its Option
    \* ---- a voucher sent back (SpecReturn) ----
    back              \* the process_recv_packet call that receives the voucher back

denom_vars == <<denom_str, parsed, denom, ops>>
ctx_vars == <<receive_enabled, blocked_accounts, channels>>
ledger_vars == <<balances, supply, denom_traces>>
handler_vars == <<events, call, pending, applied, phase>>
amount_vars == <<arith>>
return_vars == <<back>>
vars == <<denom_vars, ctx_vars, ledger_vars, handler_vars, amount_vars, return_vars>>

----------------------------------------------------------------------------
(* Bounds of the model *)

\* longest input string, counted in '/'-separated segments
MaxSegs == 5
\* longest trace path the workbench builds with add_prefix
MaxPathLen == 3
\* longest trace path of a received token
MaxHops == 2
\* largest amount carried by a packet
MaxAmount == 2
\* what each known escrow account holds of the native denom at the start
EscrowFunds == 1
\* the width in bits the 256-bit unsigned integer is scaled down to
AmountBits == 4
\* longest string handed to a PrefixedDenom constructor, in segments
MaxBaseSegs == 3
\* longest path field of a raw denom trace, in segments
MaxRawSegs == 2

----------------------------------------------------------------------------
(* Strings *)

Slash == "/"
\* char::is_whitespace, which str::trim strips, over the alphabet of the
\* model, which is ASCII: U+0009..U+000D and U+0020. A character outside
\* ASCII cannot be written here in a way every reading of the file agrees
\* on, so the White_Space characters beyond U+007F (U+0085, U+00A0,
\* U+1680, U+2000..U+200A, U+2028, U+2029, U+202F, U+205F, U+3000) are
\* outside the model.
Whitespace ==
    { "\t", "\n", "\f", "\r", " ", "" }

\* the texts input strings are built from
transfer == <<"t", "r", "a", "n", "s", "f", "e", "r">>
channel_0 == <<"c", "h", "a", "n", "n", "e", "l", "-", "0">>
channel_1 == <<"c", "h", "a", "n", "n", "e", "l", "-", "1">>
uatom == <<"u", "a", "t", "o", "m">>

\* a blank text: a space and a tab
blank == <<" ", "\t">>

\* the segments of input strings: empty, blank, two identifiers, and a base
\* denom that is too short for a channel identifier
Segments == { <<>>, blank, transfer, channel_0, uatom }

RECURSIVE join(_, _)
join(parts, sep) ==
    IF parts = <<>> THEN <<>>
    ELSE IF Len(parts) = 1 THEN parts[1]
    ELSE parts[1] \o sep \o join(Tail(parts), sep)

RECURSIVE split(_)
split(s) ==
    IF \A i \in 1..Len(s) : s[i] # Slash THEN <<s>>
    ELSE LET i == CHOOSE k \in 1..Len(s) :
                      s[k] = Slash /\ \A j \in 1..(k - 1) : s[j] # Slash
         IN <<SubSeq(s, 1, i - 1)>> \o split(SubSeq(s, i + 1, Len(s)))

RECURSIVE trim_start(_)
trim_start(s) ==
    IF s # <<>> /\ Head(s) \in Whitespace THEN trim_start(Tail(s)) ELSE s

RECURSIVE trim_end(_)
trim_end(s) ==
    IF s # <<>> /\ s[Len(s)] \in Whitespace
    THEN trim_end(SubSeq(s, 1, Len(s) - 1)) ELSE s

trim(s) == trim_end(trim_start(s))

RECURSIVE SeqsUpTo(_, _)
SeqsUpTo(S, n) ==
    IF n = 0 THEN { <<>> }
    ELSE LET shorter == SeqsUpTo(S, n - 1)
         IN shorter \cup { Append(q, x) : q \in shorter, x \in S }

InputStrings == { join(segs, <<Slash>>) : segs \in SeqsUpTo(Segments, MaxSegs) \ { <<>> } }

----------------------------------------------------------------------------
(* Results *)

Ok(v) == [ok |-> TRUE, val |-> v]
\* a denom.rs error: its kind and the usize it carries (length or position)
DenomErr(kind, n) == [ok |-> FALSE, kind |-> kind, n |-> n]
\* a panic (a failed expect or unwrap): the call does not return
Panic == DenomErr("panic", 0)

----------------------------------------------------------------------------
(* Identifiers (ics24_host): opaque strings validated by charset and       *)
(* length, rendered as the text that was accepted                          *)

IdChars ==
    { "a", "b", "c", "d", "e", "f", "g", "h", "i", "j", "k", "l", "m",
      "n", "o", "p", "q", "r", "s", "t", "u", "v", "w", "x", "y", "z",
      "0", "1", "2", "3", "4", "5", "6", "7", "8", "9",
      ".", "_", "+", "-", "#", "[", "]", "<", ">" }

MinPortIdLen == 2
MaxPortIdLen == 128
MinChannelIdLen == 8
MaxChannelIdLen == 64

Ports == { transfer }
Channels == { channel_0, channel_1 }

ValidIdentifier(s, min, max) ==
    /\ min <= Len(s) /\ Len(s) <= max
    /\ \A i \in 1..Len(s) : s[i] \in IdChars

PortId_from_str(s) ==
    IF ValidIdentifier(s, MinPortIdLen, MaxPortIdLen) THEN Ok(s) ELSE [ok |-> FALSE]
ChannelId_from_str(s) ==
    IF ValidIdentifier(s, MinChannelIdLen, MaxChannelIdLen) THEN Ok(s) ELSE [ok |-> FALSE]
PortId_fmt(p) == p
ChannelId_fmt(c) == c

----------------------------------------------------------------------------
(* denom.rs *)

BaseDenom_from_str(s) ==
    IF trim(s) = <<>> THEN DenomErr("EmptyBaseDenom", 0) ELSE Ok(s)

TracePrefix_new(port_id, channel_id) ==
    [port_id |-> port_id, channel_id |-> channel_id]

TracePrefix_fmt(prefix) ==
    PortId_fmt(prefix.port_id) \o <<Slash>> \o ChannelId_fmt(prefix.channel_id)

\* a mutant: the oldest hop is compared instead of the current one
starts_with_first(path, prefix) ==
    IF path = <<>> THEN FALSE ELSE path[1] = prefix

starts_with(path, prefix) ==
    IF path = <<>> THEN FALSE ELSE path[Len(path)] = prefix

\* a mutant: the current hop is popped whatever it is
remove_prefix_any(path, prefix) ==
    IF path # <<>> THEN SubSeq(path, 1, Len(path) - 1) ELSE path

\* a mutant: every leading hop equal to the prefix is popped, not just one
RECURSIVE remove_prefix_all(_, _)
remove_prefix_all(path, prefix) ==
    IF path # <<>> /\ path[Len(path)] = prefix
    THEN remove_prefix_all(SubSeq(path, 1, Len(path) - 1), prefix)
    ELSE path

remove_prefix(path, prefix) ==
    IF starts_with(path, prefix) THEN SubSeq(path, 1, Len(path) - 1) ELSE path

\* a mutant: the prefix is inserted at the front of the Vec, as the oldest hop
add_prefix_front(path, prefix) == <<prefix>> \o path

add_prefix(path, prefix) == Append(path, prefix)

Reverse(seq) == [i \in 1..Len(seq) |-> seq[Len(seq) + 1 - i]]

\* v.chunks_exact(2).map(|paths| (paths[0], paths[1]))
chunks_exact_2(v) == [i \in 1..(Len(v) \div 2) |-> <<v[2 * i - 1], v[2 * i]>>]

\* the loop of try_from over id_pairs.rev().enumerate(), from position pos
\* a mutant: the channel identifier of a pair is validated before its port
RECURSIVE try_from_loop_channel_first(_, _, _)
try_from_loop_channel_first(pairs, pos, trace) ==
    IF pos >= Len(pairs) THEN Ok(trace)
    ELSE LET port_id == PortId_from_str(pairs[pos + 1][1])
             channel_id == ChannelId_from_str(pairs[pos + 1][2])
         IN IF ~channel_id.ok THEN DenomErr("InvalidTraceChannelId", pos)
            ELSE IF ~port_id.ok THEN DenomErr("InvalidTracePortId", pos)
            ELSE try_from_loop_channel_first(pairs, pos + 1,
                     Append(trace, TracePrefix_new(port_id.val, channel_id.val)))

RECURSIVE try_from_loop(_, _, _)
try_from_loop(pairs, pos, trace) ==
    IF pos >= Len(pairs) THEN Ok(trace)
    ELSE LET port_id == PortId_from_str(pairs[pos + 1][1])
             channel_id == ChannelId_from_str(pairs[pos + 1][2])
         IN IF ~port_id.ok THEN DenomErr("InvalidTracePortId", pos)
            ELSE IF ~channel_id.ok THEN DenomErr("InvalidTraceChannelId", pos)
            ELSE try_from_loop(pairs, pos + 1,
                     Append(trace, TracePrefix_new(port_id.val, channel_id.val)))

\* a mutant: the length is not checked, chunks_exact drops the odd remainder
TracePath_try_from_unchecked(v) ==
    try_from_loop(Reverse(chunks_exact_2(v)), 0, <<>>)

\* a mutant: the pairs are pushed in reading order, without rev()
TracePath_try_from_norev(v) ==
    IF Len(v) % 2 # 0 THEN DenomErr("InvalidTraceLength", Len(v))
    ELSE try_from_loop(chunks_exact_2(v), 0, <<>>)

TracePath_try_from(v) ==
    IF Len(v) % 2 # 0 THEN DenomErr("InvalidTraceLength", Len(v))
    ELSE try_from_loop(Reverse(chunks_exact_2(v)), 0, <<>>)

TracePath_from_str(s) ==
    LET parts == split(s)
    IN TracePath_try_from(
           IF Len(parts) = 1 /\ trim(parts[1]) = <<>> THEN <<>> ELSE parts)

\* a mutant: the hops are written in storage order, without rev()
TracePath_fmt_oldest_first(path) ==
    join([i \in 1..Len(path) |-> TracePrefix_fmt(path[i])], <<Slash>>)

TracePath_fmt(path) ==
    join([i \in 1..Len(path) |-> TracePrefix_fmt(Reverse(path)[i])], <<Slash>>)

remove_trace_prefix(d, prefix) ==
    [d EXCEPT !.trace_path = remove_prefix(d.trace_path, prefix)]

add_trace_prefix(d, prefix) ==
    [d EXCEPT !.trace_path = add_prefix(d.trace_path, prefix)]

is_receiver_chain_source(source_port, source_channel, d) ==
    starts_with(d.trace_path, TracePrefix_new(source_port, source_channel))

\* a mutant: the negation is dropped
is_sender_chain_source_same(source_port, source_channel, d) ==
    is_receiver_chain_source(source_port, source_channel, d)

is_sender_chain_source(source_port, source_channel, d) ==
    ~is_receiver_chain_source(source_port, source_channel, d)

\* a mutant: the trace is parsed before the base denom is validated
PrefixedDenom_from_str_trace_first(s) ==
    LET parts == split(s)
        last_part == parts[Len(parts)]
        rest == SubSeq(parts, 1, Len(parts) - 1)
    IN IF last_part = s
       THEN LET base_denom == BaseDenom_from_str(s)
            IN IF ~base_denom.ok THEN base_denom
               ELSE Ok([trace_path |-> <<>>, base_denom |-> base_denom.val])
       ELSE LET trace_path == TracePath_try_from(rest)
            IN IF ~trace_path.ok THEN trace_path
               ELSE LET base_denom == BaseDenom_from_str(last_part)
                    IN IF ~base_denom.ok THEN base_denom
                       ELSE Ok([trace_path |-> trace_path.val,
                                base_denom |-> base_denom.val])

\* a mutant: empty tokens are filtered out of the split before the pop
PrefixedDenom_from_str_skip_empty(s) ==
    LET parts == SelectSeq(split(s), LAMBDA t : t # <<>>)
        last_part == parts[Len(parts)]
        rest == SubSeq(parts, 1, Len(parts) - 1)
    IN IF parts = <<>> THEN Panic
       ELSE IF last_part = s
       THEN LET base_denom == BaseDenom_from_str(s)
            IN IF ~base_denom.ok THEN base_denom
               ELSE Ok([trace_path |-> <<>>, base_denom |-> base_denom.val])
       ELSE LET base_denom == BaseDenom_from_str(last_part)
            IN IF ~base_denom.ok THEN base_denom
               ELSE LET trace_path == TracePath_try_from(rest)
                    IN IF ~trace_path.ok THEN trace_path
                       ELSE Ok([trace_path |-> trace_path.val,
                                base_denom |-> base_denom.val])

PrefixedDenom_from_str(s) ==
    LET parts == split(s)
        last_part == parts[Len(parts)]
        rest == SubSeq(parts, 1, Len(parts) - 1)
    IN IF parts = <<>> THEN Panic
       ELSE IF last_part = s
       THEN LET base_denom == BaseDenom_from_str(s)
            IN IF ~base_denom.ok THEN base_denom
               ELSE Ok([trace_path |-> <<>>, base_denom |-> base_denom.val])
       ELSE LET base_denom == BaseDenom_from_str(last_part)
            IN IF ~base_denom.ok THEN base_denom
               ELSE LET trace_path == TracePath_try_from(rest)
                    IN IF ~trace_path.ok THEN trace_path
                       ELSE Ok([trace_path |-> trace_path.val,
                                base_denom |-> base_denom.val])

\* a mutant: base denom and trace are written in the wrong order
PrefixedDenom_fmt_base_first(d) ==
    IF d.trace_path = <<>> THEN d.base_denom
    ELSE d.base_denom \o <<Slash>> \o TracePath_fmt(d.trace_path)

PrefixedDenom_fmt(d) ==
    IF d.trace_path = <<>> THEN d.base_denom
    ELSE TracePath_fmt(d.trace_path) \o <<Slash>> \o d.base_denom

\* impl From<BaseDenom> for PrefixedDenom: the default (empty) trace path
\* and the base denom as it is
PrefixedDenom_from_base(base_denom) ==
    [trace_path |-> <<>>, base_denom |-> base_denom]

\* the derived Deserialize of PrefixedDenom: trace_path is read as a string
\* and parsed (serde_string), base_denom is the transparent BaseDenom, whose
\* derived Deserialize takes the string as it is, without BaseDenom::from_str
PrefixedDenom_deserialize(value) ==
    LET trace_path == TracePath_from_str(value.trace_path)
    IN IF ~trace_path.ok THEN trace_path
       ELSE Ok([trace_path |-> trace_path.val, base_denom |-> value.base_denom])

\* impl TryFrom<RawDenomTrace> for PrefixedDenom: the two fields are parsed
\* separately, the base denom first
PrefixedDenom_try_from_raw(value) ==
    LET base_denom == BaseDenom_from_str(value.base_denom)
    IN IF ~base_denom.ok THEN base_denom
       ELSE LET trace_path == TracePath_from_str(value.path)
            IN IF ~trace_path.ok THEN trace_path
               ELSE Ok([trace_path |-> trace_path.val,
                        base_denom |-> base_denom.val])

----------------------------------------------------------------------------
(* Amount: a 256-bit unsigned integer (bigint::U256), here AmountBits wide *)

None == [some |-> FALSE, val |-> 0]
Some(v) == [some |-> TRUE, val |-> v]

U256_MAX == 2^AmountBits - 1

\* the sum and difference as the fixed-width registers hold them, with the
\* carry or borrow out of the top bit
U256_overflowing_add(a, b) ==
    [val |-> (a + b) % 2^AmountBits, overflow |-> a + b > U256_MAX]
U256_overflowing_sub(a, b) ==
    [val |-> (a - b + 2^AmountBits) % 2^AmountBits, overflow |-> a < b]

U256_checked_add(a, b) ==
    LET r == U256_overflowing_add(a, b) IN IF r.overflow THEN None ELSE Some(r.val)
U256_checked_sub(a, b) ==
    LET r == U256_overflowing_sub(a, b) IN IF r.overflow THEN None ELSE Some(r.val)

\* a mutant: the wrapped sum is returned whether or not it overflowed
Amount_checked_add_wrapping(self, rhs) == Some(U256_overflowing_add(self, rhs).val)

\* self.0.checked_add(rhs.0).map(Self)
Amount_checked_add(self, rhs) ==
    LET r == U256_checked_add(self, rhs) IN IF r.some THEN Some(r.val) ELSE None

\* a mutant: the wrapped difference is returned whether or not it underflowed
Amount_checked_sub_wrapping(self, rhs) == Some(U256_overflowing_sub(self, rhs).val)

\* self.0.checked_sub(rhs.0).map(Self)
Amount_checked_sub(self, rhs) ==
    LET r == U256_checked_sub(self, rhs) IN IF r.some THEN Some(r.val) ELSE None

Amounts == 0..U256_MAX

NoArith == [self |-> 0, rhs |-> 0, op |-> "none", out |-> None]

InitAmountIdle == arith = NoArith

----------------------------------------------------------------------------
(* The denomination workbench: a denom is parsed from a string, then       *)
(* prefixes are added and removed, and it is rendered and classified.      *)

Prefixes == { TracePrefix_new(p, c) : p \in Ports, c \in Channels }
NoPrefix == TracePrefix_new(<<>>, <<>>)
NoDenom == [trace_path |-> <<>>, base_denom |-> <<>>]
NotParsed == DenomErr("NotParsed", 0)

\* the log keeps the last two operations
Log(entry) == IF Len(ops) < 2 THEN Append(ops, entry) ELSE <<ops[2], entry>>

OpEntry(name, prefix, after, out) ==
    [name |-> name, prefix |-> prefix, before |-> denom, after |-> after, out |-> out]

InitDenomIdle ==
    /\ denom_str = <<>>
    /\ parsed = NotParsed
    /\ denom = NoDenom
    /\ ops = <<>>

InitHandlerIdle ==
    /\ receive_enabled = TRUE
    /\ blocked_accounts = {}
    /\ channels = {}
    /\ balances = <<>>
    /\ supply = <<>>
    /\ denom_traces = <<>>
    /\ events = <<>>
    /\ call = [made |-> FALSE]
    /\ pending = <<>>
    /\ applied = [done |-> FALSE]
    /\ phase = "idle"
    /\ back = [made |-> FALSE]

InitDenom ==
    /\ denom_str \in InputStrings
    /\ parsed = NotParsed
    /\ denom = NoDenom
    /\ ops = <<>>
    /\ InitHandlerIdle
    /\ InitAmountIdle

ParseDenom ==
    /\ parsed = NotParsed
    /\ parsed' = PrefixedDenom_from_str(denom_str)
    /\ denom' = IF parsed'.ok THEN parsed'.val ELSE NoDenom
    /\ UNCHANGED <<denom_str, ops>>
    /\ UNCHANGED <<ctx_vars, ledger_vars, handler_vars, amount_vars, return_vars>>

AddTracePrefix(q) ==
    /\ parsed.ok
    /\ Len(denom.trace_path) < MaxPathLen
    /\ denom' = add_trace_prefix(denom, q)
    /\ ops' = Log(OpEntry("add_prefix", q, denom', <<>>))
    /\ UNCHANGED <<denom_str, parsed>>
    /\ UNCHANGED <<ctx_vars, ledger_vars, handler_vars, amount_vars, return_vars>>

RemoveTracePrefix(q) ==
    /\ parsed.ok
    /\ denom' = remove_trace_prefix(denom, q)
    /\ ops' = Log(OpEntry("remove_prefix", q, denom', <<>>))
    /\ UNCHANGED <<denom_str, parsed>>
    /\ UNCHANGED <<ctx_vars, ledger_vars, handler_vars, amount_vars, return_vars>>

RenderDenom ==
    /\ parsed.ok
    /\ ops' = Log(OpEntry("fmt", NoPrefix, denom, PrefixedDenom_fmt(denom)))
    /\ UNCHANGED <<denom_str, parsed, denom>>
    /\ UNCHANGED <<ctx_vars, ledger_vars, handler_vars, amount_vars, return_vars>>

ClassifySource(q) ==
    /\ parsed.ok
    /\ ops' = Log(OpEntry("source", q, denom,
                    << is_receiver_chain_source(q.port_id, q.channel_id, denom),
                       is_sender_chain_source(q.port_id, q.channel_id, denom) >>))
    /\ UNCHANGED <<denom_str, parsed, denom>>
    /\ UNCHANGED <<ctx_vars, ledger_vars, handler_vars, amount_vars, return_vars>>

\* TracePath::starts_with on the denom's trace path
StartsWith(q) ==
    /\ parsed.ok
    /\ ops' = Log(OpEntry("starts_with", q, denom, starts_with(denom.trace_path, q)))
    /\ UNCHANGED <<denom_str, parsed, denom>>
    /\ UNCHANGED <<ctx_vars, ledger_vars, handler_vars, amount_vars, return_vars>>

\* TracePath::from_str on the input string
ParseTracePath ==
    /\ ops' = Log(OpEntry("trace_from_str", NoPrefix, denom, TracePath_from_str(denom_str)))
    /\ UNCHANGED <<denom_str, parsed, denom>>
    /\ UNCHANGED <<ctx_vars, ledger_vars, handler_vars, amount_vars, return_vars>>

\* Display of the denom's trace path
RenderTracePath ==
    /\ parsed.ok
    /\ ops' = Log(OpEntry("trace_fmt", NoPrefix, denom, TracePath_fmt(denom.trace_path)))
    /\ UNCHANGED <<denom_str, parsed, denom>>
    /\ UNCHANGED <<ctx_vars, ledger_vars, handler_vars, amount_vars, return_vars>>

NextDenom ==
    \/ ParseDenom
    \/ ParseTracePath
    \/ RenderTracePath
    \/ \E q \in Prefixes : StartsWith(q)
    \/ \E q \in Prefixes : AddTracePrefix(q)
    \/ \E q \in Prefixes : RemoveTracePrefix(q)
    \/ RenderDenom
    \/ \E q \in Prefixes : ClassifySource(q)

SpecDenom == InitDenom /\ [][NextDenom]_vars
----------------------------------------------------------------------------
(* The public constructors of PrefixedDenom: a denom is parsed from a      *)
(* string, converted from a BaseDenom, or converted from a raw denom       *)
(* trace; prefixes are then added and removed, and the value is rendered   *)
(* and the rendered string parsed again.                                   *)

\* the strings handed to the constructors
ConstructStrings ==
    { join(segs, <<Slash>>) : segs \in SeqsUpTo(Segments, MaxBaseSegs) \ { <<>> } }

\* the path field of a raw denom trace
RawPaths ==
    { join(segs, <<Slash>>) : segs \in SeqsUpTo({ blank, transfer, channel_0 }, MaxRawSegs) }

InitConstruct ==
    /\ denom_str \in ConstructStrings
    /\ parsed = NotParsed
    /\ denom = NoDenom
    /\ ops = <<>>
    /\ InitHandlerIdle
    /\ InitAmountIdle

\* BaseDenom::from_str on the input string, then PrefixedDenom::from
FromBaseDenom ==
    /\ parsed = NotParsed
    /\ LET base_denom == BaseDenom_from_str(denom_str)
       IN parsed' = IF base_denom.ok
                    THEN Ok(PrefixedDenom_from_base(base_denom.val))
                    ELSE base_denom
    /\ denom' = IF parsed'.ok THEN parsed'.val ELSE NoDenom
    /\ UNCHANGED <<denom_str, ops>>
    /\ UNCHANGED <<ctx_vars, ledger_vars, handler_vars, amount_vars, return_vars>>

\* PrefixedDenom::try_from on the raw denom trace {path, base_denom: input}
FromRawDenomTrace(path) ==
    /\ parsed = NotParsed
    /\ parsed' = PrefixedDenom_try_from_raw([path |-> path, base_denom |-> denom_str])
    /\ denom' = IF parsed'.ok THEN parsed'.val ELSE NoDenom
    /\ UNCHANGED <<denom_str, ops>>
    /\ UNCHANGED <<ctx_vars, ledger_vars, handler_vars, amount_vars, return_vars>>

\* PrefixedDenom deserialised from {trace_path: path, base_denom: input}
DeserializeDenom(path) ==
    /\ parsed = NotParsed
    /\ parsed' = PrefixedDenom_deserialize([trace_path |-> path, base_denom |-> denom_str])
    /\ denom' = IF parsed'.ok THEN parsed'.val ELSE NoDenom
    /\ UNCHANGED <<denom_str, ops>>
    /\ UNCHANGED <<ctx_vars, ledger_vars, handler_vars, amount_vars, return_vars>>

\* denom.to_string().parse::<PrefixedDenom>()
ReparseDenom ==
    /\ parsed.ok
    /\ ops' = Log(OpEntry("reparse", NoPrefix, denom,
                          PrefixedDenom_from_str(PrefixedDenom_fmt(denom))))
    /\ UNCHANGED <<denom_str, parsed, denom>>
    /\ UNCHANGED <<ctx_vars, ledger_vars, handler_vars, amount_vars, return_vars>>

NextConstruct ==
    \/ ParseDenom
    \/ FromBaseDenom
    \/ \E path \in RawPaths : FromRawDenomTrace(path)
    \/ \E path \in RawPaths : DeserializeDenom(path)
    \/ \E q \in Prefixes : AddTracePrefix(q)
    \/ \E q \in Prefixes : RemoveTracePrefix(q)
    \/ ReparseDenom

SpecConstruct == InitConstruct /\ [][NextConstruct]_vars

----------------------------------------------------------------------------
(* The host context (Ics20Context): accounts, escrow lookup, registry,     *)
(* and the bank ledger. A ledger value L is [balances, supply,             *)
(* denom_traces]; every primitive is atomic: it returns the ledger changed *)
(* with ok, or the ledger untouched with an error.                         *)

Bases == { uatom }

\* wire-form receivers of a packet: two well-formed ones, one that is not
Signers == { "alice", "bob", "malformed" }
WellFormedSigners == { "alice", "bob" }

Account(kind, signer, port_id, channel_id) ==
    [kind |-> kind, signer |-> signer, port_id |-> port_id, channel_id |-> channel_id]

NoAccount == Account("none", "", <<>>, <<>>)

\* data.receiver.clone().try_into()
AccountId_try_from(signer) ==
    IF signer \in WellFormedSigners
    THEN Ok(Account("user", signer, <<>>, <<>>))
    ELSE [ok |-> FALSE, val |-> NoAccount]

is_receive_enabled == receive_enabled

is_blocked_account(account) == account \in blocked_accounts

get_channel_escrow_address(port_id, channel_id) ==
    IF <<port_id, channel_id>> \in channels
    THEN Ok(Account("escrow", "", port_id, channel_id))
    ELSE [ok |-> FALSE, val |-> NoAccount]

get_transfer_account == Account("module", "0CDA3F47EF3C4906693B170EF650EB968C5F4B2C", <<>>, <<>>)

\* the hash of a denom: a collision-free digest of its canonical string
hashed(d) == <<"sha256", PrefixedDenom_fmt(d)>>

EmptyMap == [k \in {} |-> 0]

Get(map, k) == IF k \in DOMAIN map THEN map[k] ELSE 0

Put(map, k, v) ==
    IF v = 0 THEN [x \in DOMAIN map \ {k} |-> map[x]]
    ELSE [x \in DOMAIN map \cup {k} |-> IF x = k THEN v ELSE map[x]]

Ledger == [balances |-> balances, supply |-> supply, denom_traces |-> denom_traces]

BankOk(L) == [ok |-> TRUE, err |-> "", ledger |-> L]
BankErr(L, err) == [ok |-> FALSE, err |-> err, ledger |-> L]

get_denom_trace(L, denom_hash) ==
    IF denom_hash \in DOMAIN L.denom_traces
    THEN [some |-> TRUE, val |-> L.denom_traces[denom_hash]]
    ELSE [some |-> FALSE, val |-> NoDenom]

has_denom_trace(L, denom_hash) == get_denom_trace(L, denom_hash).some

set_denom_trace(L, denom_trace) ==
    BankOk([L EXCEPT !.denom_traces =
        [h \in DOMAIN L.denom_traces \cup {hashed(denom_trace)} |->
            IF h = hashed(denom_trace) THEN denom_trace ELSE L.denom_traces[h]]])

\* moves amt from one account to another; rejected when the host refuses
\* or the payer holds too little
Move(L, from, to, amt) ==
    LET debited == Put(L.balances, <<from, amt.denom>>,
                       Get(L.balances, <<from, amt.denom>>) - amt.amount)
    IN [L EXCEPT !.balances =
           Put(debited, <<to, amt.denom>>, Get(debited, <<to, amt.denom>>) + amt.amount)]

send_coins(L, from, to, amt, rejects) ==
    IF "send_coins" \in rejects \/ Get(L.balances, <<from, amt.denom>>) < amt.amount
    THEN BankErr(L, "send_coins")
    ELSE BankOk(Move(L, from, to, amt))

mint_coins(L, module, amt, rejects) ==
    IF "mint_coins" \in rejects
    THEN BankErr(L, "mint_coins")
    ELSE BankOk([L EXCEPT
            !.supply = Put(@, amt.denom, Get(@, amt.denom) + amt.amount),
            !.balances = Put(@, <<module, amt.denom>>,
                             Get(@, <<module, amt.denom>>) + amt.amount)])

send_coins_from_module_to_account(L, module, to, amt, rejects) ==
    IF "send_coins_from_module_to_account" \in rejects
       \/ Get(L.balances, <<module, amt.denom>>) < amt.amount
    THEN BankErr(L, "send_coins_from_module_to_account")
    ELSE BankOk(Move(L, module, to, amt))

BankPrimitives == { "send_coins", "mint_coins", "send_coins_from_module_to_account" }

\* IbcCoin::from(coin): the coin as the bank takes it
IbcCoin_from(coin) == coin

\* data.token.denom.source_chain(&prefix)
source_chain(d, prefix) ==
    IF is_receiver_chain_source(prefix.port_id, prefix.channel_id, d)
    THEN "Receiver" ELSE "Sender"

----------------------------------------------------------------------------
(* on_recv_packet.rs *)

HandlerErr(kind, receiver) == [kind |-> kind, receiver |-> receiver]
NoErr == HandlerErr("", "")

\* what the returned closure captured
Action(kind, escrow_address, receiver, coin) ==
    [kind |-> kind, escrow_address |-> escrow_address, receiver |-> receiver, coin |-> coin]

NoCoin == [denom |-> NoDenom, amount |-> 0]
NoAction == Action("none", NoAccount, NoAccount, NoCoin)

RecvOk(action, emitted) == [ok |-> TRUE, err |-> NoErr, action |-> action, events |-> emitted]
RecvErr(err, emitted) == [ok |-> FALSE, err |-> err, action |-> NoAction, events |-> emitted]

DenomTraceEvent(trace_hash, d) == [trace_hash |-> trace_hash, denom |-> d]

\* a mutant: the escrow account is looked up before the receiver is checked
unescrow_branch_lookup_first(packet, data, receiver, prefix) ==
    LET coin == [data.token EXCEPT !.denom = remove_trace_prefix(@, prefix)]
        escrow_address ==
            get_channel_escrow_address(packet.destination_port, packet.destination_channel)
    IN IF ~escrow_address.ok
       THEN RecvErr(HandlerErr("UnknownEscrowChannel", ""), <<>>)
       ELSE IF is_blocked_account(receiver)
            THEN RecvErr(HandlerErr("UnauthorisedReceive", data.receiver), <<>>)
            ELSE RecvOk(Action("unescrow", escrow_address.val, receiver, IbcCoin_from(coin)), <<>>)

\* a mutant: the escrow account of the packet's source end is used
unescrow_branch_source_escrow(packet, data, receiver, prefix) ==
    LET coin == [data.token EXCEPT !.denom = remove_trace_prefix(@, prefix)]
        escrow_address ==
            get_channel_escrow_address(packet.source_port, packet.source_channel)
    IN IF is_blocked_account(receiver)
       THEN RecvErr(HandlerErr("UnauthorisedReceive", data.receiver), <<>>)
       ELSE IF ~escrow_address.ok
            THEN RecvErr(HandlerErr("UnknownEscrowChannel", ""), <<>>)
            ELSE RecvOk(Action("unescrow", escrow_address.val, receiver, IbcCoin_from(coin)), <<>>)

\* Source::Receiver: sender chain is not the source, unescrow tokens
unescrow_branch(packet, data, receiver, prefix) ==
    LET coin == [data.token EXCEPT !.denom = remove_trace_prefix(@, prefix)]
        escrow_address ==
            get_channel_escrow_address(packet.destination_port, packet.destination_channel)
    IN IF is_blocked_account(receiver)
       THEN RecvErr(HandlerErr("UnauthorisedReceive", data.receiver), <<>>)
       ELSE IF ~escrow_address.ok
            THEN RecvErr(HandlerErr("UnknownEscrowChannel", ""), <<>>)
            ELSE RecvOk(Action("unescrow", escrow_address.val, receiver, IbcCoin_from(coin)), <<>>)

\* a mutant: the event carries the denom as received, before the new hop
mint_branch_stale_event(packet, data, receiver) ==
    LET prefix == TracePrefix_new(packet.destination_port, packet.destination_channel)
        coin == [data.token EXCEPT !.denom = add_trace_prefix(@, prefix)]
        denom_trace_event == DenomTraceEvent(hashed(data.token.denom), data.token.denom)
    IN RecvOk(Action("mint", NoAccount, receiver, coin), <<denom_trace_event>>)

\* a mutant: the branch succeeds without handing back its closure
mint_branch_no_action(packet, data, receiver) ==
    LET prefix == TracePrefix_new(packet.destination_port, packet.destination_channel)
        coin == [data.token EXCEPT !.denom = add_trace_prefix(@, prefix)]
        denom_trace_event == DenomTraceEvent(hashed(coin.denom), coin.denom)
    IN RecvOk(NoAction, <<denom_trace_event>>)

\* a mutant: the branch refuses a blocked receiver, as the other branch does
mint_branch_checks_blocked(packet, data, receiver) ==
    LET prefix == TracePrefix_new(packet.destination_port, packet.destination_channel)
        coin == [data.token EXCEPT !.denom = add_trace_prefix(@, prefix)]
        denom_trace_event == DenomTraceEvent(hashed(coin.denom), coin.denom)
    IN IF is_blocked_account(receiver)
       THEN RecvErr(HandlerErr("UnauthorisedReceive", data.receiver), <<>>)
       ELSE RecvOk(Action("mint", NoAccount, receiver, coin), <<denom_trace_event>>)

\* Source::Sender: sender chain is the source, mint vouchers
mint_branch(packet, data, receiver) ==
    LET prefix == TracePrefix_new(packet.destination_port, packet.destination_channel)
        coin == [data.token EXCEPT !.denom = add_trace_prefix(@, prefix)]
        denom_trace_event == DenomTraceEvent(hashed(coin.denom), coin.denom)
    IN RecvOk(Action("mint", NoAccount, receiver, coin), <<denom_trace_event>>)

\* a mutant: the receiver is parsed before receiving is checked to be enabled
process_recv_packet_parse_first(packet, data) ==
    LET receiver == AccountId_try_from(data.receiver)
        prefix == TracePrefix_new(packet.source_port, packet.source_channel)
    IN IF ~receiver.ok
       THEN RecvErr(HandlerErr("ParseAccountFailure", ""), <<>>)
       ELSE IF ~is_receive_enabled
            THEN RecvErr(HandlerErr("ReceiveDisabled", ""), <<>>)
            ELSE IF source_chain(data.token.denom, prefix) = "Receiver"
                 THEN unescrow_branch(packet, data, receiver.val, prefix)
                 ELSE mint_branch(packet, data, receiver.val)

\* a mutant: the voucher event is emitted before the branch can still fail
process_recv_packet_emit_early(packet, data) ==
    LET receiver == AccountId_try_from(data.receiver)
        prefix == TracePrefix_new(packet.source_port, packet.source_channel)
        emitted == mint_branch(packet, data, receiver.val).events
    IN IF ~is_receive_enabled
       THEN RecvErr(HandlerErr("ReceiveDisabled", ""), <<>>)
       ELSE IF ~receiver.ok
            THEN RecvErr(HandlerErr("ParseAccountFailure", ""), emitted)
            ELSE IF source_chain(data.token.denom, prefix) = "Receiver"
                 THEN unescrow_branch(packet, data, receiver.val, prefix)
                 ELSE mint_branch(packet, data, receiver.val)

\* a mutant: in the unescrow branch the escrow account is looked up before
\* the receiver is parsed
process_recv_packet_lookup_before_parse(packet, data) ==
    LET receiver == AccountId_try_from(data.receiver)
        prefix == TracePrefix_new(packet.source_port, packet.source_channel)
        escrow_address ==
            get_channel_escrow_address(packet.destination_port, packet.destination_channel)
    IN IF ~is_receive_enabled
       THEN RecvErr(HandlerErr("ReceiveDisabled", ""), <<>>)
       ELSE IF source_chain(data.token.denom, prefix) = "Receiver" /\ ~escrow_address.ok
            THEN RecvErr(HandlerErr("UnknownEscrowChannel", ""), <<>>)
            ELSE IF ~receiver.ok
                 THEN RecvErr(HandlerErr("ParseAccountFailure", ""), <<>>)
                 ELSE IF source_chain(data.token.denom, prefix) = "Receiver"
                      THEN unescrow_branch(packet, data, receiver.val, prefix)
                      ELSE mint_branch(packet, data, receiver.val)

process_recv_packet(packet, data) ==
    LET receiver == AccountId_try_from(data.receiver)
        prefix == TracePrefix_new(packet.source_port, packet.source_channel)
    IN IF ~is_receive_enabled
       THEN RecvErr(HandlerErr("ReceiveDisabled", ""), <<>>)
       ELSE IF ~receiver.ok
            THEN RecvErr(HandlerErr("ParseAccountFailure", ""), <<>>)
            ELSE IF source_chain(data.token.denom, prefix) = "Receiver"
                 THEN unescrow_branch(packet, data, receiver.val, prefix)
                 ELSE mint_branch(packet, data, receiver.val)

\* a ledger primitive invoked by a closure
BankCall(name, from, to, amt) == [name |-> name, from |-> from, to |-> to, amt |-> amt]

WriteResult(r, invoked) ==
    [ok |-> r.ok, err |-> r.err, ledger |-> r.ledger, calls |-> invoked, panicked |-> FALSE]

\* the closure panicked (a failed unwrap): nothing was invoked
WritePanic(L) ==
    [ok |-> FALSE, err |-> "panic", ledger |-> L, calls |-> <<>>, panicked |-> TRUE]

\* the type process_recv_packet was instantiated with
CtxTypeId == "Ctx"

\* a type other than Ctx, and the types a &mut dyn Any may hold
OtherTypeId == "Other"
TypeIds == { CtxTypeId, OtherTypeId }

\* the context handed to a WriteFn, as &mut dyn Any
as_any_mut(type_id, L) == [type_id |-> type_id, value |-> L]

\* ctx.downcast_mut::<Ctx>()
downcast_mut(any) ==
    IF any.type_id = CtxTypeId THEN Some(any.value) ELSE [some |-> FALSE, val |-> any.value]

\* the closure returned by the Source::Receiver branch
write_unescrow(action, any, rejects) ==
    LET ctx == downcast_mut(any)
    IN IF ~ctx.some THEN WritePanic(any.value)
       ELSE WriteResult(
                send_coins(ctx.val, action.escrow_address, action.receiver, action.coin, rejects),
                << BankCall("send_coins", action.escrow_address, action.receiver, action.coin) >>)
\* a mutant: the minted coins are left in the module account
write_mint_keeps_in_module(action, any, rejects) ==
    LET ctx == downcast_mut(any)
        hashed_denom == hashed(action.coin.denom)
        traced == IF has_denom_trace(ctx.val, hashed_denom)
                  THEN set_denom_trace(ctx.val, action.coin.denom)
                  ELSE BankOk(ctx.val)
        amount == IbcCoin_from(action.coin)
        minted == mint_coins(traced.ledger, get_transfer_account, amount, rejects)
        mint_call == BankCall("mint_coins", NoAccount, get_transfer_account, amount)
        send_call == BankCall("send_coins_from_module_to_account",
                              get_transfer_account, action.receiver, amount)
    IN IF ~ctx.some THEN WritePanic(any.value)
       ELSE IF ~traced.ok THEN WriteResult(traced, <<>>)
       ELSE IF ~minted.ok THEN WriteResult(minted, <<mint_call>>)
       ELSE WriteResult(minted, <<mint_call, send_call>>)

\* the closure returned by the Source::Sender branch
write_mint(action, any, rejects) ==
    LET ctx == downcast_mut(any)
        hashed_denom == hashed(action.coin.denom)
        traced == IF has_denom_trace(ctx.val, hashed_denom)
                  THEN set_denom_trace(ctx.val, action.coin.denom)
                  ELSE BankOk(ctx.val)
        amount == IbcCoin_from(action.coin)
        minted == mint_coins(traced.ledger, get_transfer_account, amount, rejects)
        mint_call == BankCall("mint_coins", NoAccount, get_transfer_account, amount)
        sent == send_coins_from_module_to_account(
                    minted.ledger, get_transfer_account, action.receiver, amount, rejects)
        send_call == BankCall("send_coins_from_module_to_account",
                              get_transfer_account, action.receiver, amount)
    IN IF ~ctx.some THEN WritePanic(any.value)
       ELSE IF ~traced.ok THEN WriteResult(traced, <<>>)
       ELSE IF ~minted.ok THEN WriteResult(minted, <<mint_call>>)
       ELSE WriteResult(sent, <<mint_call, send_call>>)

write_fn(action, any, rejects) ==
    IF action.kind = "unescrow" THEN write_unescrow(action, any, rejects)
    ELSE write_mint(action, any, rejects)

----------------------------------------------------------------------------
(* The receive handler and its caller *)

Packets ==
    [source_port : Ports, source_channel : Channels,
     destination_port : Ports, destination_channel : Channels]

PayloadDenoms ==
    { [trace_path |-> p, base_denom |-> b] : p \in SeqsUpTo(Prefixes, MaxHops), b \in Bases }

PacketDatas ==
    { [receiver |-> r, token |-> [denom |-> d, amount |-> a]] :
        r \in Signers, d \in PayloadDenoms, a \in 1..MaxAmount }

NativeDenom == [trace_path |-> <<>>, base_denom |-> uatom]

NotApplied == [done |-> FALSE]
NoCall == [made |-> FALSE]

InitHandler ==
    /\ receive_enabled \in BOOLEAN
    /\ blocked_accounts \in SUBSET { AccountId_try_from("bob").val }
    /\ channels \in { { <<p, c>> : p \in Ports, c \in cs } : cs \in SUBSET Channels \ { {} } }
    /\ balances = [k \in { <<Account("escrow", "", pc[1], pc[2]), NativeDenom>> : pc \in channels }
                     |-> EscrowFunds]
    /\ supply = EmptyMap
    /\ \E registered \in SUBSET { [trace_path |-> <<q>>, base_denom |-> uatom] : q \in Prefixes } :
           /\ Cardinality(registered) <= 1
           /\ denom_traces = [h \in { hashed(d) : d \in registered } |->
                                 CHOOSE d \in registered : hashed(d) = h]
    /\ events = <<>>
    /\ call = NoCall
    /\ pending = NoAction
    /\ applied = NotApplied
    /\ phase = "idle"
    /\ back = [made |-> FALSE]
    /\ InitDenomIdle
    /\ InitAmountIdle

\* the host hands a packet and its parsed payload to process_recv_packet;
\* a behaviour follows one packet from its receipt to the fate of its action
RecvPacket(packet, data) ==
    /\ phase = "idle"
    /\ LET r == process_recv_packet(packet, data)
       IN /\ call' = [made |-> TRUE, packet |-> packet, data |-> data,
                      ok |-> r.ok, err |-> r.err, action |-> r.action,
                      ledger_before |-> Ledger]
          /\ pending' = r.action
          /\ events' = r.events
    /\ applied' = NotApplied
    /\ phase' = "returned"
    /\ UNCHANGED <<ctx_vars, ledger_vars, denom_vars, amount_vars, return_vars>>

\* the returned action is applied, once, to a &mut dyn Any holding a value
\* of the type type_id: WriteFn is dyn FnOnce(&mut dyn Any), so the closure
\* takes a value of any type
ApplyActionTo(type_id, rejects) ==
    /\ phase = "returned"
    /\ pending # NoAction
    /\ LET r == write_fn(pending, as_any_mut(type_id, Ledger), rejects)
       IN /\ balances' = r.ledger.balances
          /\ supply' = r.ledger.supply
          /\ denom_traces' = r.ledger.denom_traces
          /\ applied' = [done |-> TRUE, ok |-> r.ok, err |-> r.err, calls |-> r.calls,
                         panicked |-> r.panicked, ledger_before |-> Ledger]
    /\ pending' = NoAction
    /\ phase' = "applied"
    /\ UNCHANGED <<events, call, ctx_vars, denom_vars, amount_vars, return_vars>>

\* the caller applies the returned action, once, to the context that
\* handled the packet: the module process_recv_packet was called with
ApplyAction(rejects) == ApplyActionTo(CtxTypeId, rejects)

\* the caller drops the returned action without applying it
DiscardAction ==
    /\ phase = "returned"
    /\ pending # NoAction
    /\ pending' = NoAction
    /\ phase' = "discarded"
    /\ UNCHANGED <<events, call, applied, ctx_vars, ledger_vars, denom_vars, amount_vars, return_vars>>

Next ==
    \/ \E packet \in Packets, data \in PacketDatas : RecvPacket(packet, data)
    \/ \E rejects \in SUBSET BankPrimitives : ApplyAction(rejects)
    \/ DiscardAction

Init == InitHandler

Spec == Init /\ [][Next]_vars

----------------------------------------------------------------------------
(* A voucher on its way back: after a mint-voucher action was applied, a   *)
(* packet carrying the voucher leaves through the channel end it arrived   *)
(* on, and the counterparty runs process_recv_packet on it. The            *)
(* counterparty's context takes the values of the context variables.       *)

\* the packets that leave through the channel end the voucher arrived on
ReturnPackets ==
    IF ~call.made THEN {}
    ELSE { packet \in Packets :
             /\ packet.source_port = call.packet.destination_port
             /\ packet.source_channel = call.packet.destination_channel }

\* the payloads that carry the voucher of the last call
ReturnDatas ==
    IF ~(call.made /\ call.ok) THEN {}
    ELSE { [receiver |-> r, token |-> [denom |-> call.action.coin.denom, amount |-> a]] :
             r \in Signers, a \in 1..MaxAmount }

RecvReturnPacket(packet, data) ==
    /\ phase = "applied"
    /\ applied.ok
    /\ call.action.kind = "mint"
    /\ LET prefix == TracePrefix_new(packet.source_port, packet.source_channel)
           r == process_recv_packet(packet, data)
       IN back' = [made |-> TRUE, packet |-> packet, data |-> data,
                   source |-> source_chain(data.token.denom, prefix),
                   ok |-> r.ok, err |-> r.err, action |-> r.action, events |-> r.events]
    /\ phase' = "returned_back"
    /\ UNCHANGED <<events, call, pending, applied>>
    /\ UNCHANGED <<ctx_vars, ledger_vars, denom_vars, amount_vars>>

NextReturn ==
    \/ Next
    \/ \E packet \in ReturnPackets, data \in ReturnDatas : RecvReturnPacket(packet, data)

SpecReturn == Init /\ [][NextReturn]_vars

----------------------------------------------------------------------------
(* Amount arithmetic: two amounts, and one checked operation on them *)

InitAmount ==
    /\ arith \in { [NoArith EXCEPT !.self = a, !.rhs = b] : a \in Amounts, b \in Amounts }
    /\ InitDenomIdle
    /\ InitHandlerIdle

CheckedAdd ==
    /\ arith.op = "none"
    /\ arith' = [arith EXCEPT !.op = "checked_add",
                              !.out = Amount_checked_add(arith.self, arith.rhs)]
    /\ UNCHANGED <<denom_vars, ctx_vars, ledger_vars, handler_vars, return_vars>>

CheckedSub ==
    /\ arith.op = "none"
    /\ arith' = [arith EXCEPT !.op = "checked_sub",
                              !.out = Amount_checked_sub(arith.self, arith.rhs)]
    /\ UNCHANGED <<denom_vars, ctx_vars, ledger_vars, handler_vars, return_vars>>

NextAmount == CheckedAdd \/ CheckedSub

SpecAmount == InitAmount /\ [][NextAmount]_vars

----------------------------------------------------------------------------
(* The core as a whole: a behaviour is either one of the denomination      *)
(* workbench (no channel is known to the idle host) or one of the receive  *)
(* handler                                                                 *)

InitCore == InitDenom \/ InitHandler

NextCore ==
    \/ (channels = {} /\ NextDenom)
    \/ (channels # {} /\ Next)

SpecCore == InitCore /\ [][NextCore]_vars

\* the same, the returned action being applied to a value of any type
NextAny ==
    \/ \E packet \in Packets, data \in PacketDatas : RecvPacket(packet, data)
    \/ \E type_id \in TypeIds, rejects \in SUBSET BankPrimitives :
           ApplyActionTo(type_id, rejects)
    \/ DiscardAction

NextCoreAny ==
    \/ (channels = {} /\ NextDenom)
    \/ (channels # {} /\ NextAny)

SpecCoreAny == InitCore /\ [][NextCoreAny]_vars

----------------------------------------------------------------------------
(* Claims about the receive handler, checked under Spec *)

\* the inputs of the last call
CallPrefix == TracePrefix_new(call.packet.source_port, call.packet.source_channel)
CallDestination ==
    TracePrefix_new(call.packet.destination_port, call.packet.destination_channel)
CallPath == call.data.token.denom.trace_path
CallReceiver == Account("user", call.data.receiver, <<>>, <<>>)
CallEscrow ==
    Account("escrow", "", call.packet.destination_port, call.packet.destination_channel)

\* the last call's token has (source_port, source_channel) as its current hop
CurrentHopIsSource == CallPath # <<>> /\ CallPath[Len(CallPath)] = CallPrefix

\* C2 (as claimed): after a successfully applied mint-voucher action the
\* hash of the voucher denom is registered in the denom-trace registry and
\* maps to the voucher denom.
C2_MintRegistersTrace ==
    (call.made /\ applied.done /\ applied.ok /\ call.action.kind = "mint")
    => /\ hashed(call.action.coin.denom) \in DOMAIN denom_traces
       /\ denom_traces[hashed(call.action.coin.denom)] = call.action.coin.denom

\* C3 (as claimed): when applying a deferred action fails at one of its
\* ledger primitives, the failure is the action's result and balances,
\* supply and the denom-trace registry are what they were before.
C3_FailedApplyLeavesLedger ==
    (applied.done /\ ~applied.ok) => Ledger = applied.ledger_before

\* C4: unescrow branch: when the token's current hop equals the packet's
\* source (port, channel), receiving is enabled, the receiver parses and is
\* not blocked and the destination channel is known, process_recv_packet
\* succeeds and its action transfers exactly the payload amount of the denom
\* with that one hop stripped from the escrow account of the packet's
\* destination (port, channel) to the receiver.
C4_Unescrow ==
    ( /\ call.made
      /\ receive_enabled
      /\ call.data.receiver \in WellFormedSigners
      /\ CurrentHopIsSource
      /\ CallReceiver \notin blocked_accounts
      /\ <<call.packet.destination_port, call.packet.destination_channel>> \in channels )
    => LET coin == [denom |-> [trace_path |-> SubSeq(CallPath, 1, Len(CallPath) - 1),
                               base_denom |-> call.data.token.denom.base_denom],
                    amount |-> call.data.token.amount]
       IN /\ call.ok
          /\ call.action = Action("unescrow", CallEscrow, CallReceiver, coin)
          /\ applied.done =>
                 applied.calls = << BankCall("send_coins", CallEscrow, CallReceiver, coin) >>

\* C4 witness: a two-hop token was unescrowed on a destination channel that
\* differs from the source channel, and the action was applied.
C4_Witness ==
    /\ call.made /\ call.ok
    /\ call.action.kind = "unescrow"
    /\ Len(CallPath) = 2
    /\ CallPath[1] # CallPath[2]
    /\ CallDestination # CallPrefix
    /\ applied.done

\* C5: mint-voucher branch: when the token's current hop differs from the
\* packet's source (port, channel) (an empty trace included),
\* process_recv_packet prepends the packet's destination (port, channel) as
\* the new current hop, emits exactly one trace-registration event whose
\* denom is the resulting denom and whose hash is the hash of its canonical
\* string, and returns an action that mints the payload amount of that
\* voucher denom into the module account and transfers it from the module
\* account to the receiver.
C5_MintVoucher ==
    ( /\ call.made
      /\ receive_enabled
      /\ call.data.receiver \in WellFormedSigners
      /\ ~CurrentHopIsSource )
    => LET voucher == [trace_path |-> CallPath \o <<CallDestination>>,
                       base_denom |-> call.data.token.denom.base_denom]
           coin == [denom |-> voucher, amount |-> call.data.token.amount]
           mint == BankCall("mint_coins", NoAccount, get_transfer_account, coin)
           send == BankCall("send_coins_from_module_to_account",
                            get_transfer_account, CallReceiver, coin)
       IN /\ call.ok
          /\ events = << [trace_hash |-> <<"sha256", PrefixedDenom_fmt(voucher)>>,
                          denom |-> voucher] >>
          /\ call.action = Action("mint", NoAccount, CallReceiver, coin)
          /\ applied.done => applied.calls \in { <<mint>>, <<mint, send>> }
          /\ (applied.done /\ applied.ok) => applied.calls = <<mint, send>>

\* C5 witness: a token whose older hop is the packet's source but whose
\* current hop is not was minted as a voucher, and the action was applied.
C5_Witness ==
    /\ call.made /\ call.ok
    /\ call.action.kind = "mint"
    /\ Len(CallPath) = 2
    /\ CallPath[1] = CallPrefix
    /\ CallPath[2] # CallPrefix
    /\ applied.done /\ applied.ok

\* C6: whenever process_recv_packet returns an error (receive disabled,
\* receiver unparsable, blocked receiver in the unescrow branch, escrow
\* lookup failure), no action is returned, no trace-registration event has
\* been emitted, and balances and the registry are unchanged.
C6_ErrorHasNoEffect ==
    (call.made /\ ~call.ok)
    => /\ call.err.kind \in { "ReceiveDisabled", "ParseAccountFailure",
                              "UnauthorisedReceive", "UnknownEscrowChannel" }
       /\ call.action = NoAction
       /\ pending = NoAction
       /\ events = <<>>
       /\ ~applied.done
       /\ Ledger = call.ledger_before

\* C6 witness: a voucher-branch packet with an unparsable receiver failed.
C6_Witness ==
    /\ call.made /\ ~call.ok
    /\ call.err.kind = "ParseAccountFailure"
    /\ ~CurrentHopIsSource

\* C7: if is_receive_enabled() is false, process_recv_packet fails with
\* ReceiveDisabled for every packet and payload and produces no action.
C7_ReceiveDisabled ==
    (call.made /\ ~receive_enabled)
    => /\ ~call.ok
       /\ call.err = HandlerErr("ReceiveDisabled", "")
       /\ call.action = NoAction
       /\ pending = NoAction

\* C7 witness: with receiving disabled, a packet with an unparsable
\* receiver was handled.
C7_Witness ==
    /\ call.made
    /\ ~receive_enabled
    /\ call.data.receiver \notin WellFormedSigners
    /\ call.err.kind = "ReceiveDisabled"

\* C8: in the unescrow branch, if is_blocked_account(receiver) is true then
\* process_recv_packet fails with UnauthorisedReceive carrying the receiver,
\* and no action is produced.
C8_BlockedReceiver ==
    ( /\ call.made
      /\ receive_enabled
      /\ call.data.receiver \in WellFormedSigners
      /\ CurrentHopIsSource
      /\ CallReceiver \in blocked_accounts )
    => /\ ~call.ok
       /\ call.err = HandlerErr("UnauthorisedReceive", call.data.receiver)
       /\ call.action = NoAction
       /\ pending = NoAction

\* C8 witness: a blocked receiver was refused on a destination channel the
\* host knows no escrow account for.
C8_Witness ==
    /\ call.made
    /\ receive_enabled
    /\ CurrentHopIsSource
    /\ CallReceiver \in blocked_accounts
    /\ <<call.packet.destination_port, call.packet.destination_channel>> \notin channels
    /\ call.err.kind = "UnauthorisedReceive"

\* C18: process_recv_packet itself never mutates ledger state: balances,
\* supply and the registry are after the call what they were before it; a
\* successful call yields exactly one deferred action and a failed call
\* none; the ledger changes only when that action is applied, and an action
\* discarded without being applied changes nothing.
C18_OnlyApplyMutates ==
    call.made =>
        /\ call.ok <=> call.action # NoAction
        /\ phase = "returned" => (pending = call.action /\ Ledger = call.ledger_before)
        /\ ~call.ok => pending = NoAction
        /\ ~applied.done => Ledger = call.ledger_before
        /\ applied.done =>
               /\ phase = "applied"
               /\ call.ok
               /\ applied.ledger_before = call.ledger_before
               /\ pending = NoAction
        /\ phase = "discarded" =>
               /\ call.ok
               /\ pending = NoAction
               /\ ~applied.done
               /\ Ledger = call.ledger_before

\* C18 witness: a mint-voucher action for a voucher that is not registered
\* was returned and then discarded.
C18_Witness ==
    /\ call.made /\ call.ok
    /\ call.action.kind = "mint"
    /\ phase = "discarded"
    /\ hashed(call.action.coin.denom) \notin DOMAIN denom_traces
    /\ supply = EmptyMap

\* C20: process_recv_packet checks its preconditions in a fixed order and
\* reports the first that fails: receive-enabled, then receiver address
\* parsing, then (unescrow branch only) blocked-account, then
\* escrow-address lookup; when none fails the call succeeds. So with
\* receiving disabled and an unparsable receiver the error is
\* ReceiveDisabled, and with a blocked receiver on an unknown destination
\* channel it is UnauthorisedReceive, not the lookup error.
C20_FirstFailureWins ==
    call.made =>
        LET unknown ==
                <<call.packet.destination_port, call.packet.destination_channel>> \notin channels
            first ==
                IF ~receive_enabled THEN "ReceiveDisabled"
                ELSE IF call.data.receiver \notin WellFormedSigners THEN "ParseAccountFailure"
                ELSE IF CurrentHopIsSource /\ CallReceiver \in blocked_accounts
                     THEN "UnauthorisedReceive"
                ELSE IF CurrentHopIsSource /\ unknown THEN "UnknownEscrowChannel"
                ELSE ""
        IN /\ call.err.kind = first
           /\ call.ok <=> first = ""
           /\ (~receive_enabled /\ call.data.receiver \notin WellFormedSigners)
              => call.err.kind = "ReceiveDisabled"
           /\ ( /\ receive_enabled
                /\ call.data.receiver \in WellFormedSigners
                /\ CurrentHopIsSource
                /\ CallReceiver \in blocked_accounts
                /\ unknown )
              => call.err.kind = "UnauthorisedReceive"

\* C20 witness: with receiving enabled, an unescrow-branch packet whose
\* receiver does not parse and whose destination channel is unknown failed
\* at the receiver.
C20_Witness ==
    /\ call.made
    /\ receive_enabled
    /\ call.data.receiver \notin WellFormedSigners
    /\ CurrentHopIsSource
    /\ <<call.packet.destination_port, call.packet.destination_channel>> \notin channels
    /\ call.err.kind = "ParseAccountFailure"
\* what a sender-is-source call returns, as a function of the packet and
\* the payload alone
MintResultOf(packet, data) ==
    LET voucher == [trace_path |-> data.token.denom.trace_path
                                   \o << TracePrefix_new(packet.destination_port,
                                                         packet.destination_channel) >>,
                    base_denom |-> data.token.denom.base_denom]
        coin == [denom |-> voucher, amount |-> data.token.amount]
    IN [ok |-> TRUE, err |-> NoErr,
        action |-> Action("mint", NoAccount, Account("user", data.receiver, <<>>, <<>>), coin),
        events |-> << [trace_hash |-> <<"sha256", PrefixedDenom_fmt(voucher)>>,
                       denom |-> voucher] >>]

\* C22: in the mint-voucher branch the receiver's blocked-account status
\* is never consulted: the result of a sender-is-source call (success,
\* emitted event, produced action) is determined by the packet and the
\* payload alone, so two runs that differ only in is_blocked_account(
\* receiver) return the same; a blocked receiver is credited with the
\* vouchers when the action is applied.
C22_MintIgnoresBlocked ==
    ( /\ call.made
      /\ receive_enabled
      /\ call.data.receiver \in WellFormedSigners
      /\ ~CurrentHopIsSource )
    => LET expected == MintResultOf(call.packet, call.data)
           coin == expected.action.coin
       IN /\ call.ok = expected.ok
          /\ call.err = expected.err
          /\ call.action = expected.action
          /\ events = expected.events
          /\ (applied.done /\ applied.ok) =>
                 Get(balances, <<CallReceiver, coin.denom>>) =
                     Get(applied.ledger_before.balances, <<CallReceiver, coin.denom>>)
                     + coin.amount

\* C22 witness: a blocked receiver was sent a token in the mint-voucher
\* branch, the action was applied, and the receiver holds the vouchers.
C22_Witness ==
    /\ call.made /\ call.ok
    /\ call.action.kind = "mint"
    /\ CallReceiver \in blocked_accounts
    /\ applied.done /\ applied.ok
    /\ Get(balances, <<CallReceiver, call.action.coin.denom>>) = call.data.token.amount
\* C23: for every successfully processed packet, the coin of the produced
\* action has the amount and the base denom of the payload's token, and
\* its trace differs from the payload's only at the current hop: one hop
\* shorter in the unescrow branch, one hop longer in the mint branch, the
\* older hops unchanged and in the same order.
C23_OnlyCurrentHopChanges ==
    (call.made /\ call.ok) =>
        LET coin == call.action.coin
            tp == coin.denom.trace_path
        IN /\ coin.amount = call.data.token.amount
           /\ coin.denom.base_denom = call.data.token.denom.base_denom
           /\ call.action.kind \in { "unescrow", "mint" }
           /\ call.action.kind = "unescrow" =>
                  /\ Len(tp) = Len(CallPath) - 1
                  /\ \A k \in 1..Len(tp) : tp[k] = CallPath[k]
                  /\ CallPath[Len(CallPath)] = CallPrefix
           /\ call.action.kind = "mint" =>
                  /\ Len(tp) = Len(CallPath) + 1
                  /\ \A k \in 1..Len(CallPath) : tp[k] = CallPath[k]
                  /\ tp[Len(tp)] = CallDestination

\* C23 witness: a token whose two hops both equal the packet's source was
\* unescrowed, and its older hop is still there.
C23_Witness ==
    /\ call.made /\ call.ok
    /\ call.action.kind = "unescrow"
    /\ CallPath = <<CallPrefix, CallPrefix>>
    /\ call.action.coin.denom.trace_path = <<CallPrefix>>
    /\ call.action.coin.amount = MaxAmount
\* C24: voucher return across two receives: when a denom d was received in
\* the mint branch with packet destination (p, c), producing the voucher
\* v, a later packet carrying v whose source is (p, c) is classified
\* receiver-is-source where it is received, takes the unescrow branch, and
\* the denom of its action is exactly d again; also for a d whose own
\* current hop is already (p, c).
C24_VoucherReturns ==
    back.made =>
        /\ back.data.token.denom = call.action.coin.denom
        /\ back.source = "Receiver"
        /\ back.ok =>
               /\ back.action.kind = "unescrow"
               /\ back.events = <<>>
               /\ back.action.coin.denom = call.data.token.denom
        /\ ~back.ok =>
               back.err.kind \in { "ParseAccountFailure", "UnauthorisedReceive",
                                   "UnknownEscrowChannel" }
        /\ ( /\ back.data.receiver \in WellFormedSigners
             /\ Account("user", back.data.receiver, <<>>, <<>>) \notin blocked_accounts
             /\ <<back.packet.destination_port, back.packet.destination_channel>> \in channels )
           => back.ok

\* C24 witness: a denom whose current hop already was the destination
\* (p, c) was minted as a voucher, and the voucher came back and was
\* unescrowed.
C24_Witness ==
    /\ back.made /\ back.ok
    /\ CallPath # <<>>
    /\ CallPath[Len(CallPath)] = CallDestination
    /\ back.action.coin.denom = call.data.token.denom
\* the balance keys and denoms that the ledger before or after the applied
\* action knows of
TouchedKeys == DOMAIN balances \cup DOMAIN applied.ledger_before.balances
TouchedDenoms == DOMAIN supply \cup DOMAIN applied.ledger_before.supply

\* C26: value conservation per applied action. A successfully applied
\* unescrow action invokes only the escrow-to-receiver transfer: the supply
\* of every denom and the denom-trace registry are unchanged, the only
\* balance debited is the destination channel's escrow account, by the
\* payload amount, which the receiver is credited. A successfully applied
\* mint-voucher action raises the supply of the voucher denom by exactly the
\* payload amount, credits exactly that amount to the receiver, leaves the
\* module account's balance as before and debits no account.
C26_ValueConserved ==
    (call.made /\ applied.done /\ applied.ok)
    => LET before == applied.ledger_before
           coin == call.action.coin
           amount == call.data.token.amount
           Was(k) == Get(before.balances, k)
           Is(k) == Get(balances, k)
       IN /\ coin.amount = amount
          /\ call.action.kind = "unescrow" =>
               /\ applied.calls =
                      << BankCall("send_coins", CallEscrow, CallReceiver, coin) >>
               /\ supply = before.supply
               /\ denom_traces = before.denom_traces
               /\ Is(<<CallEscrow, coin.denom>>) = Was(<<CallEscrow, coin.denom>>) - amount
               /\ Is(<<CallReceiver, coin.denom>>) = Was(<<CallReceiver, coin.denom>>) + amount
               /\ \A k \in TouchedKeys :
                      k \notin { <<CallEscrow, coin.denom>>, <<CallReceiver, coin.denom>> }
                      => Is(k) = Was(k)
          /\ call.action.kind = "mint" =>
               /\ Get(supply, coin.denom) = Get(before.supply, coin.denom) + amount
               /\ \A d \in TouchedDenoms \ { coin.denom } :
                      Get(supply, d) = Get(before.supply, d)
               /\ Is(<<CallReceiver, coin.denom>>) = Was(<<CallReceiver, coin.denom>>) + amount
               /\ \A k \in TouchedKeys :
                      /\ k[1] = get_transfer_account => Is(k) = Was(k)
                      /\ k # <<CallReceiver, coin.denom>> => Is(k) = Was(k)
                      /\ Is(k) >= Was(k)

\* C26 witness: a voucher was minted and forwarded to the receiver on a
\* ledger whose escrow accounts held funds, and the action applied
\* successfully.
C26_Witness ==
    /\ call.made /\ applied.done /\ applied.ok
    /\ call.action.kind = "mint"
    /\ call.data.token.amount = MaxAmount
    /\ \E k \in DOMAIN applied.ledger_before.balances :
           k[1].kind = "escrow" /\ applied.ledger_before.balances[k] > 0
    /\ Get(balances, <<CallReceiver, call.action.coin.denom>>) = MaxAmount

----------------------------------------------------------------------------
(* Claims about the denomination model, checked under SpecDenom *)

\* C1: for every source (port, channel) and every PrefixedDenom,
\* is_receiver_chain_source is true iff the current hop of the denom's trace
\* path is (port, channel), and is_sender_chain_source is its negation:
\* exactly one of the two classifications holds.
C1_SourceExclusive ==
    \A i \in DOMAIN ops :
        ops[i].name = "source" =>
            LET tp == ops[i].before.trace_path
            IN /\ ops[i].out[1] <=> (tp # <<>> /\ tp[Len(tp)] = ops[i].prefix)
               /\ ops[i].out[2] <=> ~ops[i].out[1]

\* C1 witness: the same two-hop denom was classified against its current
\* hop (receiver is source) and against its older hop (sender is source).
C1_Witness ==
    /\ Len(ops) = 2
    /\ ops[1].name = "source" /\ ops[2].name = "source"
    /\ Len(denom.trace_path) = 2
    /\ ops[1].prefix = denom.trace_path[2] /\ ops[1].out = <<TRUE, FALSE>>
    /\ ops[2].prefix = denom.trace_path[1] /\ ops[2].out = <<FALSE, TRUE>>

\* C9: round trip: for every string s that PrefixedDenom::from_str accepts,
\* rendering the parsed PrefixedDenom reproduces s exactly.
C9_RoundTrip ==
    \A i \in DOMAIN ops :
        (ops[i].name = "fmt" /\ ops[i].before = parsed.val) => ops[i].out = denom_str

\* C9 witness: a string with two different hops was parsed and rendered.
C9_Witness ==
    /\ parsed.ok
    /\ Len(parsed.val.trace_path) = 2
    /\ parsed.val.trace_path[1] # parsed.val.trace_path[2]
    /\ ops # <<>>
    /\ ops[Len(ops)].name = "fmt"
    /\ ops[Len(ops)].before = parsed.val

\* C10: for every TracePath p (the empty path included) and every
\* TracePrefix q, add_prefix(q) followed by remove_prefix(q) yields p.
C10_AddThenRemove ==
    ( /\ Len(ops) = 2
      /\ ops[1].name = "add_prefix"
      /\ ops[2].name = "remove_prefix"
      /\ ops[1].prefix = ops[2].prefix )
    => ops[2].after.trace_path = ops[1].before.trace_path

\* C10 witness: q was added to and removed from a path whose current hop
\* was another prefix.
C10_Witness ==
    /\ Len(ops) = 2
    /\ ops[1].name = "add_prefix"
    /\ ops[2].name = "remove_prefix"
    /\ ops[1].prefix = ops[2].prefix
    /\ ops[1].before.trace_path # <<>>
    /\ ops[1].before.trace_path[Len(ops[1].before.trace_path)] # ops[1].prefix

\* C11: remove_prefix(q) leaves the path (and the denom holding it)
\* unchanged whenever the path's current hop is not q: when the path is
\* empty, and when q is only a deeper (older) hop. The operation has no
\* error outcome: its result is always a path.
C11_RemoveOtherIsNoOp ==
    \A i \in DOMAIN ops :
        ops[i].name = "remove_prefix" =>
            LET tp == ops[i].before.trace_path
            IN (tp = <<>> \/ tp[Len(tp)] # ops[i].prefix)
               => ops[i].after = ops[i].before

\* C11 witness: remove_prefix(q) was called on a two-hop path whose older
\* hop is q and whose current hop is not, and left it as it was.
C11_Witness ==
    /\ Len(ops) = 2
    /\ ops[2].name = "remove_prefix"
    /\ Len(ops[2].before.trace_path) = 2
    /\ ops[2].before.trace_path[1] = ops[2].prefix
    /\ ops[2].before.trace_path[2] # ops[2].prefix
    /\ ops[2].after = ops[2].before

\* the text of a denom string claims speak about
Text(segs) == join(segs, <<Slash>>)

\* the number of '/'-separated segments of s other than the last one
NonBaseSegments(s) == Cardinality({ i \in 1..Len(s) : s[i] = Slash })

\* the final '/'-delimited token of s, and what precedes its delimiter
LastSlash(s) ==
    IF \E i \in 1..Len(s) : s[i] = Slash
    THEN CHOOSE i \in 1..Len(s) : s[i] = Slash /\ \A j \in (i + 1)..Len(s) : s[j] # Slash
    ELSE 0
FinalToken(s) == SubSeq(s, LastSlash(s) + 1, Len(s))
BeforeFinalToken(s) == SubSeq(s, 1, LastSlash(s) - 1)
Blank(t) == \A i \in 1..Len(t) : t[i] \in Whitespace

\* C12 (as claimed): parsing a denomination string fails with
\* InvalidTraceLength whenever the number of '/'-separated segments other
\* than the base denom is odd; "transfer/uatom" and
\* "transfer/channel-0/transfer" are both rejected with InvalidTraceLength.
C12_OddTraceLength ==
    ( /\ parsed # NotParsed
      /\ \/ NonBaseSegments(denom_str) % 2 = 1
         \/ denom_str \in { Text(<<transfer, uatom>>),
                            Text(<<transfer, channel_0, transfer>>) } )
    => (~parsed.ok /\ parsed.kind = "InvalidTraceLength")

\* C12 (amended): parsing a denomination string whose final token is not
\* blank fails with InvalidTraceLength, carrying the number of segments
\* other than the base denom, whenever that number is odd; "transfer/uatom"
\* is rejected with InvalidTraceLength(1), and
\* "transfer/channel-0/transfer", which has two segments before its final
\* token, parses to base "transfer" with trace "transfer/channel-0".
C12_OddTraceLengthAfterBase ==
    parsed # NotParsed =>
        /\ (NonBaseSegments(denom_str) % 2 = 1 /\ ~Blank(FinalToken(denom_str)))
           => parsed = DenomErr("InvalidTraceLength", NonBaseSegments(denom_str))
        /\ denom_str = Text(<<transfer, uatom>>)
           => parsed = DenomErr("InvalidTraceLength", 1)
        /\ denom_str = Text(<<transfer, channel_0, transfer>>)
           => parsed = Ok([trace_path |-> << TracePrefix_new(transfer, channel_0) >>,
                           base_denom |-> transfer])

\* C12 witness: a string with three segments before its base denom was
\* rejected with InvalidTraceLength(3).
C12_Witness ==
    /\ denom_str = Text(<<transfer, channel_0, transfer, uatom>>)
    /\ parsed = DenomErr("InvalidTraceLength", 3)

\* C13: PrefixedDenom parsing is right-to-left: the final '/'-delimited
\* token is the base denom and only the tokens before it form the trace; a
\* final token that is empty or whitespace-only fails with EmptyBaseDenom
\* whatever precedes it ("" and "transfer/channel-0/" included), and
\* "transfer/channel-0/uatom" parses to base "uatom" with trace
\* "transfer/channel-0".
C13_RightToLeft ==
    parsed # NotParsed =>
        /\ Blank(FinalToken(denom_str)) => parsed = DenomErr("EmptyBaseDenom", 0)
        /\ parsed.ok =>
               /\ parsed.val.base_denom = FinalToken(denom_str)
               /\ 2 * Len(parsed.val.trace_path) = NonBaseSegments(denom_str)
               /\ LET tp == parsed.val.trace_path
                      toks == split(BeforeFinalToken(denom_str))
                  IN \A k \in 1..Len(tp) :
                         tp[Len(tp) + 1 - k] =
                             TracePrefix_new(PortId_from_str(toks[2 * k - 1]).val,
                                             ChannelId_from_str(toks[2 * k]).val)
        /\ denom_str \in { <<>>, Text(<<transfer, channel_0, <<>> >>) }
           => parsed = DenomErr("EmptyBaseDenom", 0)
        /\ denom_str = Text(<<transfer, channel_0, uatom>>)
           => parsed = Ok([trace_path |-> << TracePrefix_new(transfer, channel_0) >>,
                           base_denom |-> uatom])

\* C13 witness: a string whose final token is whitespace and whose
\* preceding tokens are an odd number of segments, the first of them no
\* valid port identifier, failed with EmptyBaseDenom.
C13_Witness ==
    /\ parsed = DenomErr("EmptyBaseDenom", 0)
    /\ FinalToken(denom_str) = blank
    /\ NonBaseSegments(denom_str) = 3
    /\ denom_str[1] = Slash

\* C14: TracePath::starts_with(prefix) is true iff the path is non-empty
\* and its current hop equals prefix, the current hop being the most
\* recently added one; it is false for the empty path and false when prefix
\* equals only a deeper hop.
C14_StartsWithCurrentHop ==
    /\ \A i \in DOMAIN ops :
           ops[i].name = "starts_with" =>
               LET tp == ops[i].before.trace_path
               IN /\ ops[i].out <=> (tp # <<>> /\ tp[Len(tp)] = ops[i].prefix)
                  /\ tp = <<>> => ~ops[i].out
                  /\ (tp # <<>> /\ tp[Len(tp)] # ops[i].prefix) => ~ops[i].out
    /\ (Len(ops) = 2 /\ ops[1].name = "add_prefix" /\ ops[2].name = "starts_with")
       => (ops[2].out <=> ops[2].prefix = ops[1].prefix)

\* C14 witness: right after a hop was added on top of q, starts_with(q)
\* was asked of a path whose older hop is q, and answered false.
C14_Witness ==
    /\ Len(ops) = 2
    /\ ops[1].name = "add_prefix"
    /\ ops[2].name = "starts_with"
    /\ ops[1].before.trace_path # <<>>
    /\ ops[2].prefix = ops[1].before.trace_path[Len(ops[1].before.trace_path)]
    /\ ops[2].prefix # ops[1].prefix
    /\ ops[2].out = FALSE

\* the hop a pair of tokens names
HopOf(port_token, channel_token) ==
    TracePrefix_new(PortId_from_str(port_token).val, ChannelId_from_str(channel_token).val)

\* a valid trace string: an even number of tokens, alternately a valid port
\* identifier and a valid channel identifier
ValidTraceTokens(toks) ==
    /\ Len(toks) % 2 = 0
    /\ \A k \in 1..Len(toks) :
           IF k % 2 = 1 THEN PortId_from_str(toks[k]).ok ELSE ChannelId_from_str(toks[k]).ok

\* the empty path with add_prefix called for (pn,cn), ..., (p2,c2), (p1,c1)
RECURSIVE PrependRightToLeft(_)
PrependRightToLeft(toks) ==
    IF Len(toks) < 2 THEN <<>>
    ELSE add_prefix(PrependRightToLeft(SubSeq(toks, 3, Len(toks))), HopOf(toks[1], toks[2]))

\* C15: for every valid trace string "p1/c1/.../pn/cn", TracePath parsing
\* yields the path obtained from the empty path by add_prefix for (pn,cn),
\* ..., (p1,c1) in that order; the leftmost pair is the current hop, and
\* rendering the result lists the hops newest-first.
C15_ParseIsPrepending ==
    \A i \in DOMAIN ops :
        ops[i].name = "trace_from_str" =>
            LET toks == IF denom_str = <<>> THEN <<>> ELSE split(denom_str)
                r == ops[i].out
            IN ValidTraceTokens(toks) =>
                   /\ r.ok
                   /\ r.val = PrependRightToLeft(toks)
                   /\ Len(r.val) = Len(toks) \div 2
                   /\ toks # <<>> => starts_with(r.val, HopOf(toks[1], toks[2]))
                   /\ toks # <<>> =>
                          LET text == split(TracePath_fmt(r.val))
                          IN /\ Len(text) = 2 * Len(r.val)
                             /\ \A k \in 1..Len(r.val) :
                                    /\ text[2 * k - 1] = PortId_fmt(r.val[Len(r.val) + 1 - k].port_id)
                                    /\ text[2 * k] = ChannelId_fmt(r.val[Len(r.val) + 1 - k].channel_id)
                                    /\ r.val[Len(r.val) + 1 - k] = HopOf(toks[2 * k - 1], toks[2 * k])

\* C15 witness: a trace string of two different hops was parsed.
C15_Witness ==
    /\ ops # <<>>
    /\ ops[Len(ops)].name = "trace_from_str"
    /\ ops[Len(ops)].out.ok
    /\ Len(ops[Len(ops)].out.val) = 2
    /\ ops[Len(ops)].out.val[1] # ops[Len(ops)].out.val[2]

\* C16: after any sequence of parse, add_prefix and remove_prefix, the
\* rendered form of the trace path is empty exactly when the path has no
\* hops, and otherwise a '/'-joined list with an even number of segments,
\* two per hop (port, then channel), newest hop first.
C16_RenderedShape ==
    /\ \A i \in DOMAIN ops :
           ops[i].name = "trace_fmt" =>
               LET tp == ops[i].before.trace_path
                   text == ops[i].out
                   segs == split(text)
               IN /\ text = <<>> <=> tp = <<>>
                  /\ tp # <<>> =>
                         /\ NonBaseSegments(text) + 1 = 2 * Len(tp)
                         /\ Len(segs) % 2 = 0
                         /\ \A k \in 1..Len(tp) :
                                /\ segs[2 * k - 1] = PortId_fmt(tp[Len(tp) + 1 - k].port_id)
                                /\ segs[2 * k] = ChannelId_fmt(tp[Len(tp) + 1 - k].channel_id)
    /\ (Len(ops) = 2 /\ ops[1].name = "add_prefix" /\ ops[2].name = "trace_fmt")
       => LET segs == split(ops[2].out)
          IN /\ segs[1] = PortId_fmt(ops[1].prefix.port_id)
             /\ segs[2] = ChannelId_fmt(ops[1].prefix.channel_id)

\* C16 witness: a path of three hops lost its current hop to remove_prefix
\* and the two different hops left were rendered.
C16_Witness ==
    /\ Len(ops) = 2
    /\ ops[1].name = "remove_prefix"
    /\ Len(ops[1].before.trace_path) = 3
    /\ ops[2].name = "trace_fmt"
    /\ Len(ops[2].before.trace_path) = 2
    /\ ops[2].before.trace_path[1] # ops[2].before.trace_path[2]
    /\ ops[2].out # <<>>
\* the tokens TracePath::from_str hands to try_from: none for a blank
\* string without '/', otherwise the '/'-separated tokens
TraceTokens(s) ==
    IF NonBaseSegments(s) = 0 /\ Blank(s) THEN <<>> ELSE split(s)

\* the identifier failures of an even-length token list, as <<position,
\* rank>>: position counts pairs from the right end (rightmost pair = 0),
\* rank is 0 for the port and 1 for the channel of the pair
IdFailures(toks) ==
    LET n == Len(toks) \div 2
    IN { <<pos, 0>> : pos \in { q \in 0..(n - 1) : ~PortId_from_str(toks[2 * (n - q) - 1]).ok } }
       \cup
       { <<pos, 1>> : pos \in { q \in 0..(n - 1) : ~ChannelId_from_str(toks[2 * (n - q)]).ok } }

\* C21: TracePath parsing checks the token count before any identifier (an
\* odd-length input reports InvalidTraceLength carrying the token count,
\* whatever its identifiers are); an even-length input is validated from
\* the rightmost pair to the leftmost, port before channel within a pair,
\* and the first failure is reported with a position counting pairs from
\* the right end of the string (rightmost pair = 0).
C21_TraceErrorOrder ==
    \A i \in DOMAIN ops :
        ops[i].name = "trace_from_str" =>
            LET toks == TraceTokens(denom_str)
                fails == IdFailures(toks)
                r == ops[i].out
            IN IF Len(toks) % 2 = 1
               THEN r = DenomErr("InvalidTraceLength", Len(toks))
               ELSE IF fails = {} THEN r.ok
               ELSE LET first == CHOOSE f \in fails :
                                     \A g \in fails :
                                         f[1] < g[1] \/ (f[1] = g[1] /\ f[2] <= g[2])
                    IN r = DenomErr(IF first[2] = 0 THEN "InvalidTracePortId"
                                    ELSE "InvalidTraceChannelId", first[1])

\* C21 witness: a string of two pairs whose leftmost pair has no valid port
\* and whose rightmost pair has no valid channel was reported at the
\* channel of position 0.
C21_Witness ==
    /\ ops # <<>>
    /\ ops[Len(ops)].name = "trace_from_str"
    /\ Len(TraceTokens(denom_str)) = 4
    /\ ~PortId_from_str(TraceTokens(denom_str)[1]).ok
    /\ PortId_from_str(TraceTokens(denom_str)[3]).ok
    /\ ~ChannelId_from_str(TraceTokens(denom_str)[4]).ok
    /\ ops[Len(ops)].out = DenomErr("InvalidTraceChannelId", 0)
----------------------------------------------------------------------------
(* Claims about the constructors of PrefixedDenom, checked under           *)
(* SpecConstruct                                                           *)

HasSlash(s) == \E i \in 1..Len(s) : s[i] = Slash

\* C25: every PrefixedDenom obtained from a public constructor (parsing,
\* conversion from a BaseDenom, conversion from a raw denom trace) and any
\* sequence of add_trace_prefix / remove_trace_prefix renders to a string
\* that parses back to an equal PrefixedDenom, and an accepted BaseDenom
\* contains no '/'.
C25_RenderParsesBack ==
    /\ parsed.ok => ~HasSlash(denom.base_denom)
    /\ \A i \in 1..Len(ops) :
         ops[i].name = "reparse" => ops[i].out = Ok(ops[i].before)

----------------------------------------------------------------------------
(* Claims about Amount, checked under SpecAmount *)

\* C17: Amount arithmetic is checked over the unsigned fixed-width values:
\* checked_add(a, b) returns no result iff a + b exceeds the maximum value
\* (MAX + 1 included) and otherwise the exact sum; checked_sub(a, b) returns
\* no result iff b > a (0 - 1 included) and otherwise the exact difference;
\* a wrapped or truncated value is never returned.
C17_CheckedArithmetic ==
    /\ arith.op = "checked_add" =>
           /\ ~arith.out.some <=> arith.self + arith.rhs > U256_MAX
           /\ arith.out.some => arith.out.val = arith.self + arith.rhs
           /\ (arith.self = U256_MAX /\ arith.rhs = 1) => arith.out = None
    /\ arith.op = "checked_sub" =>
           /\ ~arith.out.some <=> arith.rhs > arith.self
           /\ arith.out.some => arith.out.val = arith.self - arith.rhs
           /\ (arith.self = 0 /\ arith.rhs = 1) => arith.out = None

\* C17 witness: MAX + 1 was computed and yielded no result.
C17_Witness ==
    /\ arith.op = "checked_add"
    /\ arith.self = U256_MAX
    /\ arith.rhs = 1
    /\ arith.out = None

----------------------------------------------------------------------------
(* Claims about the core as a whole, checked under SpecCoreAny *)

TypedDenomErrors ==
    { "EmptyBaseDenom", "InvalidTraceLength", "InvalidTracePortId", "InvalidTraceChannelId" }
TypedHandlerErrors ==
    { "ReceiveDisabled", "ParseAccountFailure", "UnauthorisedReceive", "UnknownEscrowChannel" }

\* C19: every failure of the core is an error value returned to the
\* caller: parsing any string as TracePath or PrefixedDenom, running
\* process_recv_packet on any packet and payload, and applying a returned
\* action to a context (a &mut dyn Any of any type) all end with a result
\* or a typed error, never with a panic.
C19_NoPanic ==
    /\ parsed # NotParsed => (parsed.ok \/ parsed.kind \in TypedDenomErrors)
    /\ \A i \in DOMAIN ops :
           ops[i].name = "trace_from_str" =>
               (ops[i].out.ok \/ ops[i].out.kind \in TypedDenomErrors)
    /\ call.made =>
           \/ call.ok /\ call.action.kind \in { "unescrow", "mint" }
           \/ ~call.ok /\ call.err.kind \in TypedHandlerErrors
    /\ applied.done =>
           /\ ~applied.panicked
           /\ applied.ok \/ applied.err \in BankPrimitives

\* C19 witness: the empty string, the one input whose split holds a single
\* empty token, was parsed both as a PrefixedDenom and as a TracePath.
C19_Witness ==
    /\ denom_str = <<>>
    /\ parsed = DenomErr("EmptyBaseDenom", 0)
    /\ ops # <<>>
    /\ ops[Len(ops)].name = "trace_from_str"
    /\ ops[Len(ops)].out = Ok(<<>>)

====
